---------------------------- MODULE Spec2Model ----------------------------
(***************************************************************************)
(* Model of the background-replacement HTTP server.                        *)
(*                                                                         *)
(* Two programs exist in the repository: src/server.js (routes /generate,  *)
(* /quick-generate, /advanced-generate, /results/:filename) and            *)
(* src/unnamed/part_000 (an alternative server with /generate and          *)
(* /results/:filename only).  The variable program says which one runs.    *)
(*                                                                         *)
(* Every async handler is cut at its await points: the code between two    *)
(* awaits runs to completion on the Node event loop, so it is one action.  *)
(***************************************************************************)
EXTENDS Integers, Sequences, FiniteSets, TLC

\* ------------------------------------------------------------------ bounds
\* Requests the clients send during one run.
NumReq == 2
\* Date.now() returns a value in 0..MaxClock.
MaxClock == 1
\* A client sends at most MaxItems object images in one request.
MaxItems == 2

Req == 1..NumReq

\* ------------------------------------------------------- JavaScript values
Undefined == [type |-> "undefined"]
Num(n) == [type |-> "number", val |-> n]
\* A member every plain object inherits from Object.prototype
\* (constructor, toString, ...): a function object.
InheritedFn == [type |-> "function"]
ObjectPrototypeKeys == {"constructor", "toString"}

\* obj[key] on a plain object literal: own property, else the prototype chain.
Lookup(obj, key) ==
    IF key \in DOMAIN obj THEN obj[key]
    ELSE IF key \in ObjectPrototypeKeys THEN InheritedFn
    ELSE Undefined

\* v.field
Field(v, f) == IF f \in DOMAIN v THEN v[f] ELSE Undefined

Truthy(v) == v.type \notin {"undefined"}

\* Decimal digits of a natural number, as `${n}` prints it.
DigitChar == <<"0", "1", "2", "3", "4", "5", "6", "7", "8", "9">>
RECURSIVE Digits(_)
Digits(n) ==
    IF n < 10 THEN <<DigitChar[n + 1]>>
    ELSE Digits(n \div 10) \o <<DigitChar[(n % 10) + 1]>>

\* `${v}` inside a template literal.
TemplateStr(v) ==
    IF v.type = "number" THEN Digits(v.val)
    ELSE IF v.type = "string" THEN <<v.val>>
    ELSE <<v.type>>

\* ---------------------------------------------------------- request inputs
\* req.body.quality: a form field (a string) or absent.
Str(s) == [type |-> "string", val |-> s]
Qualities == {Str("1k"), Str("2k"), Str("4k"), Str("8k"), Str(""),
              Str("constructor"), Undefined}

\* A property key is the value converted to a string.
PropertyKey(v) == IF v.type = "string" THEN v.val ELSE v.type

\* ------------------------------------------------------------ getResolution
resolutions ==
    [k \in {"1k", "2k", "4k"} |->
        CASE k = "1k" -> [type |-> "object", width |-> Num(1024), height |-> Num(1024)]
          [] k = "2k" -> [type |-> "object", width |-> Num(2048), height |-> Num(2048)]
          [] k = "4k" -> [type |-> "object", width |-> Num(4096), height |-> Num(4096)]]

getResolution(quality) ==
    LET hit == Lookup(resolutions, PropertyKey(quality))
    IN  IF Truthy(hit) THEN hit ELSE resolutions["2k"]

\* `${resolution.width}x${resolution.height}`
ResolutionString(resolution) ==
    TemplateStr(Field(resolution, "width")) \o <<"x">> \o
    TemplateStr(Field(resolution, "height"))

\* ------------------------------------------------------------------ names
\* Mutant of MaxCount: the route accepts two files per field.
MaxCountTwo == 1 + 1

\* upload.fields([{ name: 'objectImage', maxCount: 1 }, ...])
MaxCount == 1

Fields == {"objectImage", "backgroundImage"}
\* Object.values(req.files): the fields in the order multer stored them.
FieldOrder == <<"objectImage", "backgroundImage">>

\* multer names an upload Date.now()-random-originalname; the model takes the
\* random suffix to make the name unique: the file of field f of request r.
UploadPath(r, f) == <<r, f>>

\* `result-${timestamp}.png`
OriginalName(timestamp) == <<"result-">> \o Digits(timestamp) \o <<".png">>
\* `${prefix}${timestamp}-${quality}.png`
ProcessedName(prefix, timestamp, quality) ==
    <<prefix>> \o Digits(timestamp) \o <<"-">> \o TemplateStr(quality) \o <<".png">>

RoutePrefix(route) ==
    CASE route = "generate" -> "result-"
      [] route = "quick-generate" -> "quick-result-"
      [] route = "advanced-generate" -> "advanced-result-"

\* ------------------------------------------------------------- responses
\* res.status(s).json(body)
Json(status, body) == [status |-> status, body |-> body]

SuccessBody(filename, resolution) ==
    [success |-> TRUE,
     imageUrl |-> <<"/results/">> \o filename,
     filename |-> filename,
     resolution |-> ResolutionString(resolution)]

AdvancedSuccessBody(filename, resolution, generatedPrompt) ==
    [success |-> TRUE,
     imageUrl |-> <<"/results/">> \o filename,
     filename |-> filename,
     resolution |-> ResolutionString(resolution),
     prompt |-> generatedPrompt]

ErrorBody(message) == [error |-> message]

\* ------------------------------------------------------------------ state
VARIABLES
    program,    \* which server runs: "server.js" or "part_000"
    pc,         \* pc[r]: where the handler of request r stands
    request,    \* request[r]: route, body and files as multer hands them over
    uploads,    \* files present in uploads/
    results,    \* files present in results/: [name, by] (by: who wrote it last)
    clock,      \* the last value Date.now() returned
    local,      \* local[r]: the handler's locals that live across an await
    resp,       \* resp[r]: the responses the handler has sent, in order
    inflight,   \* inflight[r]: axios.post calls started and not yet settled
    calls,      \* calls[r]: axios.post calls issued so far, per endpoint
    stored,     \* stored[r]: names request r has written into results/
    hist,       \* hist[r]: what the collaborators answered to request r
    cwd,        \* the directory the process was started from: __dirname or not
    got         \* what the last GET /results/:filename asked for and received

vars == <<program, pc, request, uploads, results, clock, local, resp,
          inflight, calls, stored, hist, cwd, got>>

Programs == {"server.js", "part_000"}
Routes(p) ==
    IF p = "server.js" THEN {"generate", "quick-generate", "advanced-generate"}
    ELSE {"generate"}

NoCalls == [flash |-> 0, pro |-> 0]
NoRequest ==
    [route |-> "none", quality |-> Undefined, prompt |-> FALSE,
     multipart |-> FALSE, fields |-> {}, objects |-> 0]
NoLocal == [timestamp |-> -1, generatedPrompt |-> "unset", input |-> 0]
NoGet == [name |-> <<>>, status |-> 0]
NoHist == [flash |-> "none", call |-> "none", sharp |-> "none", fault |-> FALSE]

Init ==
    /\ program \in Programs
    /\ pc = [r \in Req |-> "idle"]
    /\ request = [r \in Req |-> NoRequest]
    /\ uploads = {}
    /\ results = {}
    /\ clock = 0
    /\ local = [r \in Req |-> NoLocal]
    /\ resp = [r \in Req |-> <<>>]
    /\ inflight = [r \in Req |-> NoCalls]
    /\ calls = [r \in Req |-> NoCalls]
    /\ stored = [r \in Req |-> {}]
    /\ hist = [r \in Req |-> NoHist]
    /\ cwd \in {"dirname", "elsewhere"}
    /\ got = NoGet

\* ------------------------------------------------------------ file system
\* The working state a handler segment computes on before it suspends or ends.
Work(r) ==
    [pc |-> pc[r], uploads |-> uploads, results |-> results, clock |-> clock,
     timestamp |-> local[r].timestamp,
     generatedPrompt |-> local[r].generatedPrompt,
     input |-> local[r].input,
     sent |-> <<>>, issue |-> NoCalls, settled |-> NoCalls, wrote |-> {},
     flash |-> hist[r].flash, call |-> hist[r].call, sharp |-> hist[r].sharp,
     fault |-> hist[r].fault,
     threw |-> FALSE]

UploadFile(r, f) == [dir |-> "uploads", key |-> UploadPath(r, f)]
ResultFile(name) == [dir |-> "results", key |-> name]

\* fs.existsSync(path)
existsSync(st, file) ==
    IF file.dir = "uploads" THEN file.key \in st.uploads
    ELSE \E e \in st.results : e.name = file.key

\* fs.unlinkSync(path): removes the file, or throws: ENOENT when the file is
\* not there, and whatever the operating system refuses (EPERM, EBUSY, EROFS).
unlinkSync(st, file) ==
    IF ~existsSync(st, file) THEN {[st EXCEPT !.threw = TRUE]}
    ELSE { IF file.dir = "uploads"
              THEN [st EXCEPT !.uploads = @ \ {file.key}]
              ELSE [st EXCEPT !.results = {e \in @ : e.name # file.key}],
           [st EXCEPT !.threw = TRUE, !.fault = TRUE] }

\* Consecutive unlinkSync statements: the first throw ends the sequence.
RECURSIVE UnlinkEach(_, _)
UnlinkEach(st, files) ==
    IF files = <<>> \/ st.threw THEN {st}
    ELSE UNION { UnlinkEach(o, Tail(files)) : o \in unlinkSync(st, Head(files)) }

\* fs.writeFileSync / sharp(...).toFile: creates or replaces the file.
WriteFile(st, name, r, image) ==
    [st EXCEPT !.results = {e \in @ : e.name # name}
                               \cup {[name |-> name, by |-> r, image |-> image]},
               !.wrote = @ \cup {name}]

\* ----------------------------------------------------------- handler parts
\* return res.status(status).json(body)
Respond(st, status, body) ==
    [st EXCEPT !.sent = Append(@, Json(status, body)), !.pc = "done"]

\* The body each route's catch block answers with.
CatchBody(route, message) ==
    CASE route = "generate" -> ErrorBody(<<"Processing error: ", message>>)
      [] route = "quick-generate" -> ErrorBody(<<message>>)
      [] route = "advanced-generate" ->
            ErrorBody(<<"Advanced generation error: ", message>>)

\* The files the catch block finds: every file of req.files that still exists.
CatchFiles(r, st) ==
    IF request[r].multipart
    THEN SelectSeq([i \in 1..Len(FieldOrder) |-> UploadFile(r, FieldOrder[i])],
                   LAMBDA file : /\ file.key[2] \in request[r].fields
                                 /\ existsSync(st, file))
    ELSE <<>>

\* catch (error) { unlink the uploads; return res.status(500).json(...) }
\* An unlinkSync that throws here throws out of the async handler: its promise
\* rejects and the handler sends nothing.
CatchBlock(r, st, message) ==
    { IF o.threw
         THEN [o EXCEPT !.pc = "escaped"]
         ELSE Respond(o, 500, CatchBody(request[r].route, message))
      : o \in UnlinkEach([st EXCEPT !.threw = FALSE], CatchFiles(r, st)) }

\* Mutant of IssueCall: the request is posted twice.
IssueCallTwice(st, endpoint) ==
    [st EXCEPT !.issue[endpoint] = @ + 2,
               !.pc = IF endpoint = "flash" THEN "flash" ELSE "calling"]

\* await axios.post(url, body, { timeout }): the request is sent once and the
\* handler suspends until the promise settles.
IssueCall(st, endpoint) ==
    [st EXCEPT !.issue[endpoint] = @ + 1,
               !.pc = IF endpoint = "flash" THEN "flash" ELSE "calling"]

\* The awaited promise has settled and the handler resumes.
Resume(r, endpoint) == [Work(r) EXCEPT !.settled[endpoint] = 1]

\* Mutant of OnAxiosReject: a rejected call is posted again.
OnAxiosRejectRetry(r, st) == {IssueCall(st, "pro")}

\* The awaited axios.post rejected: control passes to the catch block.
OnAxiosReject(r, st) == CatchBlock(r, st, "AxiosError")

\* arr[0]
Index0(arr) == IF Len(arr) > 0 THEN arr[1] ELSE Undefined

\* req.files[f]: multer gives every field that came with a file an array of
\* the files of that field, and no entry to a field that came without one.
FileArray(r, f) == <<[type |-> "file", path |-> UploadPath(r, f)]>>

HasImageCheck(route) == route \in {"generate", "advanced-generate"}

\* The handler from its first line to its first await.
StartOutcomes(r) ==
    LET st == Work(r)
        route == request[r].route
        \* req.files['objectImage'][0], req.files['backgroundImage'][0]
        typeError == \/ ~request[r].multipart
                     \/ "objectImage" \notin request[r].fields
                     \/ "backgroundImage" \notin request[r].fields
        objectImage == Index0(FileArray(r, "objectImage"))
        backgroundImage == Index0(FileArray(r, "backgroundImage"))
        endpoint == IF route = "advanced-generate" THEN "flash" ELSE "pro"
    IN  IF typeError THEN CatchBlock(r, st, "TypeError")
        ELSE IF HasImageCheck(route)
                /\ (~Truthy(objectImage) \/ ~Truthy(backgroundImage))
        THEN {Respond(st, 400, ErrorBody(<<"Both images are required">>))}
        ELSE \* imageToBase64: fs.readFileSync reads both uploads, or throws
             CatchBlock(r, [st EXCEPT !.fault = TRUE], "ReadError")
             \cup {IssueCall(st, endpoint)}

\* What the prompt-generation call can answer.
FlashKinds == {"throw", "text", "nocandidates", "notext"}

\* /advanced-generate from the return of stage 1 to the start of stage 2.
FlashOutcomes(r, kind) ==
    LET st == [Resume(r, "flash") EXCEPT !.flash = kind]
        \* candidate.content.parts[0].text
        text == IF kind = "text" THEN "stage1" ELSE "undefined"
        generatedPrompt == IF kind = "nocandidates" THEN "user" ELSE text
    IN  IF kind = "throw" THEN OnAxiosReject(r, st)
        \* prompt || defaultPrompt: defaultPrompt is a const of the /generate
        \* handler and is not declared in this scope
        ELSE IF ~request[r].prompt THEN CatchBlock(r, st, "ReferenceError")
        \* generatedPrompt.substring(0, 200)
        ELSE IF generatedPrompt = "undefined" THEN CatchBlock(r, st, "TypeError")
        ELSE {IssueCall([st EXCEPT !.generatedPrompt = generatedPrompt], "pro")}

\* What the image-synthesis call can answer: a rejection (network error,
\* timeout, status outside 2xx), a 2xx status other than 200, and a 200 with
\* an image part, with text parts only, with no candidates, with no body.
CallKinds == {"throw", "status2xx", "image", "text", "empty", "nodata"}

\* const timestamp = Date.now()
DateNow(st) == { [st EXCEPT !.timestamp = t, !.clock = t] : t \in st.clock..MaxClock }

GenerateCallOutcomes(r, st, kind) ==
    CASE kind = "throw" -> OnAxiosReject(r, st)
      [] kind = "nodata" -> CatchBlock(r, st, "TypeError")
      [] kind = "status2xx" -> {Respond(st, 204, ErrorBody(<<"API error: ", "204">>))}
      [] kind = "image" ->
            { [WriteFile(o, OriginalName(o.timestamp), r, r) EXCEPT !.pc = "reading"]
              : o \in DateNow(st) }
      [] kind = "text" ->
            IF program = "server.js"
            THEN {Respond(st, 500, ErrorBody(<<"The API returned text instead of an image">>))}
            ELSE {Respond(st, 500, ErrorBody(<<"No image in the response">>))}
      [] kind = "empty" -> {Respond(st, 500, ErrorBody(<<"No image in the response">>))}

QuickCallOutcomes(r, st, kind) ==
    CASE kind = "throw" -> OnAxiosReject(r, st)
      [] kind = "nodata" -> CatchBlock(r, st, "TypeError")
      [] kind = "image" ->
            { [o EXCEPT !.pc = "encoding", !.input = r] : o \in DateNow(st) }
      [] kind = "text" ->
            {Respond(st, 500, ErrorBody(<<"The API returned text instead of an image">>))}
      [] kind \in {"status2xx", "empty"} ->
            {Respond(st, 500, ErrorBody(<<"Generation error - no image in the response">>))}

AdvancedCallOutcomes(r, st, kind) ==
    CASE kind = "throw" -> OnAxiosReject(r, st)
      [] kind = "nodata" -> CatchBlock(r, st, "TypeError")
      [] kind = "image" ->
            { [o EXCEPT !.pc = "encoding", !.input = r] : o \in DateNow(st) }
      [] kind \in {"status2xx", "text", "empty"} -> CatchBlock(r, st, "Stage2Error")

\* A handler from the return of the image-synthesis call to its next await.
CallOutcomes(r, kind) ==
    LET st == [Resume(r, "pro") EXCEPT !.call = kind]
        route == request[r].route
    IN  CASE route = "generate" -> GenerateCallOutcomes(r, st, kind)
          [] route = "quick-generate" -> QuickCallOutcomes(r, st, kind)
          [] route = "advanced-generate" -> AdvancedCallOutcomes(r, st, kind)

\* sharp(originalPath) opens the intermediate file of /generate.
SharpReadOutcomes(r) ==
    LET st == Work(r)
        name == OriginalName(st.timestamp)
    IN  IF existsSync(st, ResultFile(name))
        THEN { [st EXCEPT !.pc = "encoding", !.input = e.image]
               : e \in {x \in st.results : x.name = name} }
        ELSE CatchBlock(r, [st EXCEPT !.sharp = "noinput"], "SharpError")

\* The unlinkSync statements that follow the resize on the success path.
CleanupFiles(r, timestamp) ==
    <<UploadFile(r, "objectImage"), UploadFile(r, "backgroundImage")>> \o
    (IF program = "server.js" /\ request[r].route = "generate"
     THEN <<ResultFile(OriginalName(timestamp))>> ELSE <<>>)

SuccessResponse(r, st, filename) ==
    LET resolution == getResolution(request[r].quality)
    IN  IF request[r].route = "advanced-generate"
        THEN Respond(st, 200, AdvancedSuccessBody(filename, resolution, st.generatedPrompt))
        ELSE Respond(st, 200, SuccessBody(filename, resolution))

\* Mutant of SharpDoneOutcomes: a rejected toFile is not noticed and the
\* handler goes on as if the file had been written.
SharpDoneOutcomesUnchecked(r, ok) ==
    LET st == Work(r)
        filename == ProcessedName(RoutePrefix(request[r].route), st.timestamp,
                                  request[r].quality)
        written == IF ok THEN WriteFile([st EXCEPT !.sharp = "ok"], filename, r, st.input)
                   ELSE [st EXCEPT !.sharp = "fail"]
    IN  UNION { IF o.threw THEN CatchBlock(r, o, "UnlinkError")
                ELSE {SuccessResponse(r, o, filename)}
                : o \in UnlinkEach(written, CleanupFiles(r, st.timestamp)) }

\* A handler from the end of sharp(...).toFile(...) to its response.
SharpDoneOutcomes(r, ok) ==
    LET st == Work(r)
        filename == ProcessedName(RoutePrefix(request[r].route), st.timestamp,
                                  request[r].quality)
        written == WriteFile([st EXCEPT !.sharp = "ok"], filename, r, st.input)
    IN  IF ~ok THEN CatchBlock(r, [st EXCEPT !.sharp = "fail"], "SharpError")
        ELSE UNION { IF o.threw THEN CatchBlock(r, o, "UnlinkError")
                     ELSE {SuccessResponse(r, o, filename)}
                     : o \in UnlinkEach(written, CleanupFiles(r, st.timestamp)) }

\* ---------------------------------------------------------------- actions
Ended(st) == st.pc \in {"done", "escaped"}

Apply(r, st) ==
    /\ pc' = [pc EXCEPT ![r] = st.pc]
    /\ uploads' = st.uploads
    /\ results' = st.results
    /\ clock' = st.clock
    /\ local' = [local EXCEPT ![r] =
                    IF Ended(st) THEN NoLocal
                    ELSE [timestamp |-> st.timestamp,
                          generatedPrompt |-> st.generatedPrompt,
                          input |-> st.input]]
    /\ resp' = [resp EXCEPT ![r] = @ \o st.sent]
    /\ inflight' = [inflight EXCEPT ![r] =
                       [e \in {"flash", "pro"} |-> @[e] - st.settled[e] + st.issue[e]]]
    /\ calls' = [calls EXCEPT ![r] =
                    [e \in {"flash", "pro"} |-> @[e] + st.issue[e]]]
    /\ stored' = [stored EXCEPT ![r] = @ \cup st.wrote]
    /\ hist' = [hist EXCEPT ![r] = [flash |-> st.flash, call |-> st.call,
                                    sharp |-> st.sharp, fault |-> st.fault]]
    /\ UNCHANGED <<program, request, cwd, got>>

\* multer: a request arrives, its files are stored in uploads/, and req.body
\* and req.files are set.  Requests are numbered in the order they arrive.
Upload(r, qualities) ==
    /\ pc[r] = "idle"
    /\ IF r = 1 THEN TRUE ELSE pc[r - 1] # "idle"
    /\ \E route \in Routes(program), quality \in qualities, prompt \in BOOLEAN,
          multipart \in BOOLEAN, fields \in SUBSET Fields, objects \in 0..MaxCount :
          /\ ~multipart => fields = {}
          /\ objects >= 1 <=> "objectImage" \in fields
          /\ request' = [request EXCEPT ![r] =
                            [route |-> route, quality |-> quality,
                             prompt |-> prompt, multipart |-> multipart,
                             fields |-> fields, objects |-> objects]]
          /\ uploads' = uploads \cup {UploadPath(r, f) : f \in fields}
    /\ pc' = [pc EXCEPT ![r] = "uploaded"]
    /\ UNCHANGED <<program, results, clock, local, resp, inflight, calls,
                   stored, hist, cwd, got>>

\* multer: a request brings more object images than maxCount allows.  multer
\* removes what it had stored and hands an error to Express; the route's
\* handler is not called.
UploadRejected(r) ==
    /\ pc[r] = "idle"
    /\ IF r = 1 THEN TRUE ELSE pc[r - 1] # "idle"
    /\ \E route \in Routes(program), objects \in (MaxCount + 1)..MaxItems :
          request' = [request EXCEPT ![r] =
                         [NoRequest EXCEPT !.route = route, !.multipart = TRUE,
                                           !.objects = objects]]
    /\ pc' = [pc EXCEPT ![r] = "rejected"]
    /\ UNCHANGED <<program, uploads, results, clock, local, resp, inflight,
                   calls, stored, hist, cwd, got>>

HandlerStart(r) ==
    /\ pc[r] = "uploaded"
    /\ \E st \in StartOutcomes(r) : Apply(r, st)

FlashReturn(r) ==
    /\ pc[r] = "flash"
    /\ \E kind \in FlashKinds : \E st \in FlashOutcomes(r, kind) : Apply(r, st)

CallReturn(r) ==
    /\ pc[r] = "calling"
    /\ \E kind \in CallKinds : \E st \in CallOutcomes(r, kind) : Apply(r, st)

SharpRead(r) ==
    /\ pc[r] = "reading"
    /\ \E st \in SharpReadOutcomes(r) : Apply(r, st)

SharpDone(r) ==
    /\ pc[r] = "encoding"
    /\ \E ok \in BOOLEAN : \E st \in SharpDoneOutcomes(r, ok) : Apply(r, st)

\* One step of request r, its quality field drawn from qualities.
Step(r, qualities) ==
    \/ Upload(r, qualities)
    \/ UploadRejected(r)
    \/ HandlerStart(r)
    \/ FlashReturn(r)
    \/ CallReturn(r)
    \/ SharpRead(r)
    \/ SharpDone(r)

\* Concurrent requests.  Between requests the quality matters only through
\* the equality of file names, so two values stand for all of them.
ConcurrentQualities == {Str("2k"), Str("4k")}

Next == \E r \in Req : Step(r, ConcurrentQualities)

Spec == Init /\ [][Next]_vars

\* One request, its quality drawn from every kind of value the field takes.
NextSingle == Step(1, Qualities)

SpecSingle == Init /\ [][NextSingle]_vars

\* One request under the scheduling Node guarantees: a handler that has been
\* handed a request runs, and the continuation of an await runs once the
\* awaited call (axios with its timeout, sharp) has settled.
Fairness ==
    /\ WF_vars(HandlerStart(1))
    /\ WF_vars(FlashReturn(1))
    /\ WF_vars(CallReturn(1))
    /\ WF_vars(SharpRead(1))
    /\ WF_vars(SharpDone(1))

SpecFair == Init /\ [][NextSingle]_vars /\ Fairness

\* A file name no handler ever builds.
NeverStored == <<"never-stored.png">>

\* fs.existsSync(path.join(__dirname, 'results', filename)).  The handlers
\* write to 'results/', which resolves against the working directory: the two
\* are the same directory only when the process was started from __dirname.
DownloadExists(filename) ==
    /\ cwd = "dirname"
    /\ \E e \in results : e.name = filename

\* app.get('/results/:filename'): res.download(filePath) or a 404.
GetResult ==
    /\ \E filename \in {e.name : e \in results}
                      \cup UNION {stored[r] : r \in Req} \cup {NeverStored} :
          got' = [name |-> filename,
                  status |-> IF DownloadExists(filename) THEN 200 ELSE 404]
    /\ UNCHANGED <<program, pc, request, uploads, results, clock, local, resp,
                   inflight, calls, stored, hist, cwd>>

\* One request and the downloads of what it stored.  A download changes
\* nothing a handler reads, so the other specifications leave it out.
NextGet ==
    \/ NextSingle
    \/ GetResult

SpecGet == Init /\ [][NextGet]_vars

\* ================================================================= claims
Handled(r) == pc[r] \in {"done", "escaped"}
Active(r) == pc[r] \in {"flash", "calling", "reading", "encoding"}
InFlightComposite == {r \in Req : inflight[r].pro > 0}

IsSuccess(response) == "success" \in DOMAIN response.body
IsFailure(response) == "error" \in DOMAIN response.body
Responses == UNION { {resp[r][i] : i \in 1..Len(resp[r])} : r \in Req }

C2_ExactlyOneResponse ==
    \A r \in Req : /\ Len(resp[r]) <= 1
                   /\ Handled(r) => Len(resp[r]) = 1

\* The outcome request r reports: the body of its response.
Succeeded(r) == Len(resp[r]) = 1 /\ IsSuccess(resp[r][1])

\* C3, as the claim states it: a request whose own composite call returned an
\* image, whose own resize did not fail and whose own file operations met no
\* refusal of the operating system ends as a Success that stores its own image,
\* whatever the other requests did.
C3_OutcomeIsOwn ==
    \A b \in Req :
        (/\ Handled(b)
         /\ hist[b].call = "image"
         /\ hist[b].sharp # "fail"
         /\ ~hist[b].fault)
        => /\ Succeeded(b)
           /\ \A e \in results : e.by = b => e.image = b

\* C4, as the claim states it: two requests never write the same file name
\* into results/.
C4_DistinctStoredNames ==
    \A a, b \in Req : a # b => stored[a] \cap stored[b] = {}

\* A submission that lacks the object image or the background image.
Invalid(r) == request[r].route # "none" /\ request[r].fields # Fields

\* C5, as the claim states it: an invalid submission to a route that checks
\* for both images is answered 400 "both images are required", with no
\* external call made and nothing written to results/.
C5_InvalidAnswered400 ==
    \A r \in Req :
        (Handled(r) /\ Invalid(r) /\ HasImageCheck(request[r].route))
        => /\ resp[r] = <<Json(400, ErrorBody(<<"Both images are required">>))>>
           /\ calls[r] = NoCalls
           /\ stored[r] = {}

\* The composite call or the resize of request r failed.
ItemFailed(r) ==
    \/ hist[r].call \in {"throw", "status2xx", "text", "empty", "nodata"}
    \/ hist[r].sharp \in {"fail", "noinput"}

\* C6, as the claim states it: when the composite call or the resize fails,
\* nothing is thrown out of the handler and the request is answered with a
\* Failure that carries an error message and names no result file.
C6_FailureBecomesOutcome ==
    \A r \in Req :
        (Handled(r) /\ ItemFailed(r))
        => /\ pc[r] = "done"
           /\ Len(resp[r]) = 1
           /\ IsFailure(resp[r][1])
           /\ resp[r][1].body.error # <<>>
           /\ DOMAIN resp[r][1].body \cap {"filename", "imageUrl"} = {}

\* A resolution string "WxH": two non-empty parts joined by one "x".
IsResolutionString(x) ==
    /\ Len(x) >= 3
    /\ Cardinality({i \in 1..Len(x) : x[i] = "x"}) = 1
    /\ x[1] # "x" /\ x[Len(x)] # "x"

ClaimedResolution(quality) ==
    IF quality = Str("1k") THEN <<"1", "0", "2", "4", "x", "1", "0", "2", "4">>
    ELSE IF quality = Str("4k") THEN <<"4", "0", "9", "6", "x", "4", "0", "9", "6">>
    ELSE <<"2", "0", "4", "8", "x", "2", "0", "4", "8">>

\* C8, as the claim states it: the resolution a Success reports is the
\* claimed mapping of the request's quality.
C8_ResolutionIsMapped ==
    \A r \in Req :
        Succeeded(r) => resp[r][1].body.resolution = ClaimedResolution(request[r].quality)

\* The file names the Success responses sent so far report.
ReportedNames == { x.body.filename : x \in {y \in Responses : IsSuccess(y)} }

\* C9, as the claim states it, in the runs where the operating system refuses
\* no file operation: once a request has settled, results/ holds no file other
\* than the processed outputs reported in Success responses.
C9_OnlyReportedOutputs ==
    (/\ \E r \in Req : Handled(r)
     /\ \A r \in Req : ~hist[r].fault)
    => {e.name : e \in results} \subseteq ReportedNames

\* C10: a request issues at most one call to the image-synthesis endpoint.
C10_AtMostOneComposite == \A r \in Req : calls[r].pro <= 1

\* C10 witness: a request whose composite call was rejected has been answered
\* and has issued that one call only.
C10_FailedCallNotRetried ==
    \E r \in Req : /\ pc[r] = "done"
                   /\ hist[r].call = "throw"
                   /\ calls[r].pro = 1

BatchFields == {"total", "outcomes", "succeeded", "failed", "archiveRef"}

C12_StoredIsRetrievable ==
    [][got' # got =>
          /\ got'.name \in ReportedNames => got'.status = 200
          /\ got'.name \notin UNION {stored[r] : r \in Req} => got'.status = 404]_vars


Started(r) == pc[r] \notin {"idle", "rejected", "uploaded"}

\* C13, as the claim states it: given that the external calls and the resize
\* step settle, a request whose handler has started is eventually answered,
\* and it is answered only after its external call and its resize step have
\* finished.
C13_EventuallySettled ==
    \A r \in Req :
        /\ Started(r) ~> (Len(resp[r]) >= 1)
        /\ [](Len(resp[r]) >= 1 => ~Active(r) /\ inflight[r] = NoCalls)


\* C14, as the claim states it: once the response to a request that brought
\* both images has been sent, neither its uploaded object image nor its
\* uploaded background image remains in uploads/, whatever the outcome.
C14_UploadsCleanedUp ==
    \A r \in Req :
        (request[r].fields = Fields /\ Len(resp[r]) >= 1)
        => \A f \in Fields : UploadPath(r, f) \notin uploads


\* C15, as the claim states it: an /advanced-generate request with both
\* images and no prompt, once the prompt-generation stage has returned, goes on
\* to the image-generation stage, and it succeeds whenever that stage returns
\* an image and the resize step succeeds (file operations meeting no refusal
\* of the operating system).
C15_PromptOptional ==
    \A r \in Req :
        (/\ request[r].route = "advanced-generate"
         /\ request[r].fields = Fields
         /\ ~request[r].prompt
         /\ ~hist[r].fault)
        => /\ (hist[r].flash \notin {"none", "throw"}) => calls[r].pro = 1
           /\ (Handled(r) /\ hist[r].call = "image" /\ hist[r].sharp = "ok")
              => Succeeded(r)

=============================================================================
